---------------------------- MODULE Spec2Model ----------------------------
(***************************************************************************)
(* A model of the wsbps codec: the Readable / Writable implementations of  *)
(* src/src/io.rs and the code that the macros of src/src/packets.rs        *)
(* generate for structs, enums, packets and packet groups.                 *)
(*                                                                         *)
(* Bytes are the integers 0..255.  Integers wider than a byte (u16, u32,   *)
(* u64, VarInt, VarLong) are bit vectors: sequences of 0/1 of the type's   *)
(* width, least significant bit first, so that shifts, masks and the       *)
(* truncation of a shift at the type's width are what the code does.       *)
(*                                                                         *)
(* The codec is driven the way tests::it_works of src/src/lib.rs drives    *)
(* it: values are written to a sink, a cursor is opened on the bytes       *)
(* written (or on a crafted buffer) and values are read back from it.      *)
(***************************************************************************)
EXTENDS Integers, Sequences, FiniteSets

VARIABLES
    mode,     \* the direction token the schema declares its items with
    gen,      \* what the macros generated for it: [done, ok, impls]
    o,        \* the sink: [buf, cap]
    wres,     \* the result of the last write: "none", "ok", "err", "panic"
    log,      \* the values written to the sink with success: <<[T, v], ...>>
    s,        \* the source: [data, pos, alloc]
    origin,   \* where the source's bytes come from: "none", "sink", "crafted"
    reads,    \* the reads made from the source: <<[T, res, from], ...>>
    pv,       \* the last PacketVariant call: [Q, id, via, e, r]
    calls,    \* the call each thread runs on its own stream: [op, T, v,
              \* src, sink, pc, res]
    frames    \* the locals of the calls: [byte_offset, result, x]

vars == <<mode, gen, o, wres, log, s, origin, reads, pv, calls, frames>>

---------------------------------------------------------------------------
(* Bit vectors *)

Zeros(w) == [i \in 1..w |-> 0]

Ones(w) == [i \in 1..w |-> 1]

\* the w-bit vector of a number n < 2^31
Bits(n, w) == [i \in 1..w |-> IF i <= 31 THEN (n \div (2 ^ (i - 1))) % 2 ELSE 0]

\* the vector with bit k (counted from 1) set and nothing else
OnlyBit(k, w) == [i \in 1..w |-> IF i = k THEN 1 ELSE 0]

\* the vector with the k lowest bits set
LowOnes(k, w) == [i \in 1..w |-> IF i <= k THEN 1 ELSE 0]

RECURSIVE BitsToNat(_)
\* the number a vector of at most 31 bits stands for
BitsToNat(x) ==
    IF Len(x) = 0 THEN 0 ELSE x[1] + 2 * BitsToNat(Tail(x))

\* x as usize, for the vectors that fit a 31-bit number
FitsNat(x) == \A i \in 1..Len(x) : i >= 32 => x[i] = 0

AsNat(x) == BitsToNat(SubSeq(x, 1, IF Len(x) < 31 THEN Len(x) ELSE 31))

\* x != 0
NonZero(x) == \E i \in 1..Len(x) : x[i] = 1

\* (x & 0x7F) as u8
Low7(x) == BitsToNat(SubSeq(x, 1, 7))

\* x >> 7
Shr7(x) == [i \in 1..Len(x) |-> IF i + 7 <= Len(x) THEN x[i + 7] ELSE 0]

\* x.rotate_left(n): the bits shifted past the width come back at the low end
OverflowingShl_rotate(x, n) ==
    LET sh == n % Len(x)
    IN [i \in 1..Len(x) |-> IF i > sh THEN x[i - sh] ELSE x[Len(x) + i - sh]]

\* x.overflowing_shl(n).0 : the shift amount wraps at the width, the bits
\* shifted past the width are lost
OverflowingShl(x, n) ==
    LET sh == n % Len(x)
    IN [i \in 1..Len(x) |-> IF i > sh THEN x[i - sh] ELSE 0]

\* x | y
BitOr(x, y) == [i \in 1..Len(x) |-> IF x[i] = 1 \/ y[i] = 1 THEN 1 ELSE 0]

\* the number of significant bits of x
BitLength(x) ==
    IF NonZero(x)
    THEN CHOOSE k \in 1..Len(x) : x[k] = 1 /\ \A j \in (k + 1)..Len(x) : x[j] = 0
    ELSE 0

---------------------------------------------------------------------------
(* Sinks (std::io::Write) and sources (std::io::Read) *)

\* A sink holds the bytes written to it and the room it has left: -1 for a
\* sink that grows without limit (Vec<u8>), n >= 0 for a sink that accepts n
\* more bytes and fails every write after them (a cursor on a fixed slice).
NewSink(room) == [buf |-> <<>>, room |-> room]

\* Write::write_all: the bytes that fit are written, the call fails when
\* some do not fit
write_all(sink, bytes) ==
    IF sink.room < 0
    THEN [ok |-> TRUE, sink |-> [sink EXCEPT !.buf = @ \o bytes]]
    ELSE IF Len(bytes) <= sink.room
    THEN [ok |-> TRUE,
          sink |-> [buf |-> sink.buf \o bytes, room |-> sink.room - Len(bytes)]]
    ELSE [ok |-> FALSE,
          sink |-> [buf |-> sink.buf \o SubSeq(bytes, 1, sink.room), room |-> 0]]

\* WriteBytesExt::write_u8
write_u8(sink, b) == write_all(sink, <<b>>)

\* the outcome of a write call: "ok" (Ok(())), "err" (an Err returned to
\* the caller) or "panic" (the call unwinds), and the sink after it
WOk(sink) == [st |-> "ok", sink |-> sink]

WErr(sink) == [st |-> "err", sink |-> sink]

WPanic(sink) == [st |-> "panic", sink |-> sink]

\* std::io::Cursor over the bytes `data`; alloc counts the bytes of the
\* buffers the decoders have allocated while reading from it
NewCursor(data) == [data |-> data, pos |-> 0, alloc |-> 0]

\* an anyhow::Error: what failed, the value its message carries and the
\* contexts added on the way up (outermost first)
Error(kind, arg) == [kind |-> kind, arg |-> arg, ctx |-> <<>>]

NoError == Error("none", <<>>)

Ok(v, src) == [ok |-> TRUE, v |-> v, err |-> NoError, src |-> src]

Err(e, src) == [ok |-> FALSE, v |-> <<>>, err |-> e, src |-> src]

\* Result::context
Context(res, c) ==
    IF res.ok THEN res ELSE [res EXCEPT !.err.ctx = <<c>> \o @]

\* Read::read_exact on a cursor: n bytes, or an UnexpectedEof error that
\* leaves the cursor at the end of its data
read_exact(src, n) ==
    IF src.pos + n <= Len(src.data)
    THEN Ok(SubSeq(src.data, src.pos + 1, src.pos + n),
            [src EXCEPT !.pos = @ + n])
    ELSE Err(Error("io", <<>>), [src EXCEPT !.pos = Len(src.data)])

\* ReadBytesExt::read_u8
read_u8(src) ==
    LET r == read_exact(src, 1)
    IN IF r.ok THEN Ok(r.v[1], r.src) ELSE r

---------------------------------------------------------------------------
(* u8, i8, bool *)

u8_write(self, o_) ==
    LET w == write_u8(o_, self)
    IN IF w.ok THEN WOk(w.sink) ELSE WErr(w.sink)

u8_read(i) == read_u8(i)

\* write_i8 writes the two's complement byte
i8_write(self, o_) ==
    LET w == write_u8(o_, (self + 256) % 256)
    IN IF w.ok THEN WOk(w.sink) ELSE WErr(w.sink)

i8_read(i) ==
    LET r == read_u8(i)
    IN IF ~r.ok THEN r
       ELSE Ok(IF r.v >= 128 THEN r.v - 256 ELSE r.v, r.src)

bool_write(self, o_) ==
    LET w == write_u8(o_, IF self THEN 1 ELSE 0)
    IN IF w.ok THEN WOk(w.sink) ELSE WErr(w.sink)

\* every byte but 0 read as true
bool_read_nonzero_true(i) ==
    LET r == u8_read(i)
    IN IF ~r.ok THEN r
       ELSE IF r.v = 0 THEN Ok(FALSE, r.src)
       ELSE Ok(TRUE, r.src)

bool_read(i) ==
    LET r == u8_read(i)
    IN IF ~r.ok THEN r
       ELSE IF r.v = 0 THEN Ok(FALSE, r.src)
       ELSE IF r.v = 1 THEN Ok(TRUE, r.src)
       ELSE Err(Error("invalid boolean", <<>>), r.src)

---------------------------------------------------------------------------
(* VarInt (u32) and VarLong (u64) *)

VarIntWidth == 32

VarLongWidth == 64

\* the largest byte_offset VarInt::read accepts after a byte
VarIntMaxOffset == 35

\* the largest byte_offset VarLong::read accepts after a byte
VarLongMaxOffset == 70

RECURSIVE VarInt_write_loop_flag_before_shift(_, _)
\* the continuation bit decided on the value before its shift
VarInt_write_loop_flag_before_shift(x, o_) ==
    LET x1 == Shr7(x)
        temp == IF NonZero(x) THEN Low7(x) + 128 ELSE Low7(x)
        w == write_u8(o_, temp)
    IN IF ~w.ok THEN WPanic(w.sink)
       ELSE IF ~NonZero(x1) THEN WOk(w.sink)
       ELSE VarInt_write_loop_flag_before_shift(x1, w.sink)

RECURSIVE VarInt_write_loop(_, _)
VarInt_write_loop(x, o_) ==
    LET x1 == Shr7(x)
        temp == IF NonZero(x1) THEN Low7(x) + 128 ELSE Low7(x)
        w == write_u8(o_, temp)
    IN IF ~w.ok THEN WPanic(w.sink)               \* .unwrap()
       ELSE IF ~NonZero(x1) THEN WOk(w.sink)
       ELSE VarInt_write_loop(x1, w.sink)

VarInt_write(self, o_) == VarInt_write_loop(self, o_)

RECURSIVE VarInt_read_loop(_, _, _)
VarInt_read_loop(i, byte_offset, result) ==
    LET rd == read_u8(i)
        value == Bits(IF rd.ok THEN rd.v % 128 ELSE 0, VarIntWidth)
        result1 == BitOr(result, OverflowingShl(value, byte_offset))
        byte_offset1 == byte_offset + 7
    IN IF ~rd.ok THEN rd
       ELSE IF byte_offset1 > VarIntMaxOffset
       THEN Err(Error("overflow", <<>>), rd.src)
       ELSE IF rd.v < 128 THEN Ok(result1, rd.src)
       ELSE VarInt_read_loop(rd.src, byte_offset1, result1)

VarInt_read(i) == VarInt_read_loop(i, 0, Zeros(VarIntWidth))

RECURSIVE VarLong_write_loop_flag_before_shift(_, _)
\* the continuation bit decided on x before the shift
VarLong_write_loop_flag_before_shift(x, o_) ==
    LET x1 == Shr7(x)
        temp == IF NonZero(x) THEN Low7(x) + 128 ELSE Low7(x)
        w == write_u8(o_, temp)
    IN IF ~w.ok THEN WPanic(w.sink)
       ELSE IF ~NonZero(x1) THEN WOk(w.sink)
       ELSE VarLong_write_loop_flag_before_shift(x1, w.sink)

RECURSIVE VarLong_write_loop(_, _)
VarLong_write_loop(x, o_) ==
    LET x1 == Shr7(x)
        temp == IF NonZero(x1) THEN Low7(x) + 128 ELSE Low7(x)
        w == write_u8(o_, temp)
    IN IF ~w.ok THEN WPanic(w.sink)               \* .unwrap()
       ELSE IF ~NonZero(x1) THEN WOk(w.sink)
       ELSE VarLong_write_loop(x1, w.sink)

VarLong_write(self, o_) == VarLong_write_loop(self, o_)

RECURSIVE VarLong_read_loop_off_by_one(_, _, _)
\* the overflow test made with >= : a tenth byte is refused
VarLong_read_loop_off_by_one(i, byte_offset, result) ==
    LET rd == read_u8(i)
        value == Bits(IF rd.ok THEN rd.v % 128 ELSE 0, VarLongWidth)
        result1 == BitOr(result, OverflowingShl(value, byte_offset))
        byte_offset1 == byte_offset + 7
    IN IF ~rd.ok THEN rd
       ELSE IF byte_offset1 >= VarLongMaxOffset
       THEN Err(Error("overflow", <<>>), rd.src)
       ELSE IF rd.v < 128 THEN Ok(result1, rd.src)
       ELSE VarLong_read_loop_off_by_one(rd.src, byte_offset1, result1)

RECURSIVE VarLong_read_loop(_, _, _)
VarLong_read_loop(i, byte_offset, result) ==
    LET rd == read_u8(i)
        value == Bits(IF rd.ok THEN rd.v % 128 ELSE 0, VarLongWidth)
        result1 == BitOr(result, OverflowingShl(value, byte_offset))
        byte_offset1 == byte_offset + 7
    IN IF ~rd.ok THEN rd
       ELSE IF byte_offset1 > VarLongMaxOffset
       THEN Err(Error("overflow", <<>>), rd.src)
       ELSE IF rd.v < 128 THEN Ok(result1, rd.src)
       ELSE VarLong_read_loop(rd.src, byte_offset1, result1)

VarLong_read(i) == VarLong_read_loop(i, 0, Zeros(VarLongWidth))

\* the width of the value of a VarInt or a VarLong
VarWidth(T) == IF T = "VarInt" THEN VarIntWidth ELSE VarLongWidth

\* the byte_offset beyond which a read of the type bails
VarMaxOffset(T) == IF T = "VarInt" THEN VarIntMaxOffset ELSE VarLongMaxOffset

\* one iteration of the loop of VarInt::read (T = "VarInt") or VarLong::read
\* (T = "VarLong") on the locals byte_offset and result: the locals after
\* it, whether the loop goes on, and what the call returns if it does not
read_loop_body(T, i, byte_offset, result) ==
    LET rd == read_u8(i)
        value == Bits(IF rd.ok THEN rd.v % 128 ELSE 0, VarWidth(T))
        result1 == BitOr(result, OverflowingShl(value, byte_offset))
        byte_offset1 == byte_offset + 7
        over == Err(Error("overflow", <<>>), rd.src)
    IN IF ~rd.ok
       THEN [pc |-> "done", byte_offset |-> byte_offset, result |-> result,
             res |-> rd]
       ELSE IF byte_offset1 > VarMaxOffset(T)
       THEN [pc |-> "done", byte_offset |-> byte_offset1, result |-> result1,
             res |-> over]
       ELSE IF rd.v < 128
       THEN [pc |-> "done", byte_offset |-> byte_offset1, result |-> result1,
             res |-> Ok(result1, rd.src)]
       ELSE [pc |-> "loop", byte_offset |-> byte_offset1, result |-> result1,
             res |-> Ok(<<>>, rd.src)]

\* one iteration of the loop of VarInt::write or VarLong::write on the
\* local x
write_loop_body(x, o_) ==
    LET x1 == Shr7(x)
        temp == IF NonZero(x1) THEN Low7(x) + 128 ELSE Low7(x)
        w == write_u8(o_, temp)
    IN IF ~w.ok THEN [pc |-> "done", x |-> x1, res |-> WPanic(w.sink)]
       ELSE IF ~NonZero(x1) THEN [pc |-> "done", x |-> x1, res |-> WOk(w.sink)]
       ELSE [pc |-> "loop", x |-> x1, res |-> WOk(w.sink)]

\* `n as u32`, for the lengths the model builds (all below 2^31)
LenAsU32(n) == Bits(n, VarIntWidth)

\* `x.0 as usize` of a VarInt read as a length; lengths of 2^31 and more are
\* capped at 2^31 - 1, more than any buffer of the model holds
LenAsUsize(x) == IF FitsNat(x) THEN AsNat(x) ELSE 2147483647

---------------------------------------------------------------------------
(* The big-endian fixed-width integers of generate_rw! *)

\* byte k (1 = most significant) of the bit vector x
BigEndianByte(x, k) ==
    LET lo == Len(x) - 8 * k
    IN BitsToNat(SubSeq(x, lo + 1, lo + 8))

\* o.write_u16::<BigEndian>(*self) and its siblings
fixed_write(self, o_) ==
    LET w == write_all(o_, [k \in 1..(Len(self) \div 8) |-> BigEndianByte(self, k)])
    IN IF w.ok THEN WOk(w.sink) ELSE WErr(w.sink)

\* i.read_u16::<BigEndian>() and its siblings, for a type of `bytes` bytes
fixed_read(i, bytes) ==
    LET r == read_exact(i, bytes)
    IN IF ~r.ok THEN r
       ELSE Ok([b \in 1..(8 * bytes) |->
                   LET k == bytes - ((b - 1) \div 8)
                   IN (r.v[k] \div (2 ^ ((b - 1) % 8))) % 2],
               r.src)

---------------------------------------------------------------------------
(* String *)

\* i16::MAX
MaxStringLength == 32767

\* String::from_utf8 accepts exactly the well-formed UTF-8 byte sequences
IsCont(b) == b >= 128 /\ b <= 191

SeqLenOfLead(b) ==
    IF b < 128 THEN 1
    ELSE IF b >= 194 /\ b <= 223 THEN 2
    ELSE IF b >= 224 /\ b <= 239 THEN 3
    ELSE IF b >= 240 /\ b <= 244 THEN 4
    ELSE 0

SecondByteOk(lead, b) ==
    IF lead = 224 THEN b >= 160 /\ b <= 191
    ELSE IF lead = 237 THEN b >= 128 /\ b <= 159
    ELSE IF lead = 240 THEN b >= 144 /\ b <= 191
    ELSE IF lead = 244 THEN b >= 128 /\ b <= 143
    ELSE IsCont(b)

IsUtf8(bytes) ==
    /\ Len(bytes) > 0 => ~IsCont(bytes[1])
    /\ \A p \in 1..Len(bytes) :
          ~IsCont(bytes[p]) =>
              LET n == SeqLenOfLead(bytes[p])
              IN /\ n > 0
                 /\ p + n - 1 <= Len(bytes)
                 /\ \A q \in (p + 1)..(p + n - 1) : IsCont(bytes[q])
                 /\ n > 1 => SecondByteOk(bytes[p], bytes[p + 1])
                 /\ p + n <= Len(bytes) => ~IsCont(bytes[p + n])

\* a String is the sequence of its UTF-8 bytes
String_write(self, o_) ==
    LET l == VarInt_write(LenAsU32(Len(self)), o_)
        w == write_all(l.sink, self)
    IN IF l.st # "ok" THEN l
       ELSE IF w.ok THEN WOk(w.sink) ELSE WErr(w.sink)

String_read(i) ==
    LET l == Context(VarInt_read(i), <<"invalid string length varint">>)
        length == LenAsUsize(l.v)
        src1 == [l.src EXCEPT !.alloc = @ + length]     \* vec![0u8; length]
        r == read_exact(src1, length)
    IN IF ~l.ok THEN l
       ELSE IF length > MaxStringLength
       THEN Err(Error("string length", <<length, MaxStringLength>>), l.src)
       ELSE IF ~r.ok THEN r
       ELSE IF IsUtf8(r.v) THEN Ok(r.v, r.src)
       ELSE Context(Err(Error("utf8", <<>>), r.src),
                    <<"string contained invalid utf8 encoding">>)

---------------------------------------------------------------------------
(* The types of the model.  A type is named by its Rust name; the generic  *)
(* implementations (Vec<T>, Option<T>, HashMap<K, V>) are instantiated at  *)
(* the element types listed here.                                          *)

FixedTypes == {"u16", "u32", "u64"}

VecTypes == {"Vec<u8>", "Vec<bool>", "Vec<String>"}

OptionTypes == {"Option<u8>", "Option<String>"}

MapTypes == {"HashMap<u8,String>"}

\* T of Vec<T> and of Option<T>, V of HashMap<K, V>
Elem(T) ==
    CASE T = "Vec<u8>" -> "u8"
      [] T = "Vec<bool>" -> "bool"
      [] T = "Vec<String>" -> "String"
      [] T = "Option<u8>" -> "u8"
      [] T = "Option<String>" -> "String"
      [] T = "HashMap<u8,String>" -> "String"

\* K of HashMap<K, V>
Key(T) == CASE T = "HashMap<u8,String>" -> "u8"

\* size_of::<T>() of the generate_rw! types
FixedBytes(T) ==
    CASE T = "u16" -> 2
      [] T = "u32" -> 4
      [] T = "u64" -> 8

(* The schema: the declarations handed to packet_data! and packets!.  All *)
(* of them are declared with the direction token `mode`.                   *)

Modes == {"<-", "->", "<->"}

\* packet_data! { struct ExampleBiStruct (<->) { Field: u8, Name: String } }
ExampleBiStructDecl ==
    [name |-> "ExampleBiStruct",
     fields |-> << <<"Field", "u8">>, <<"Name", "String">> >>]

\* TestStruct { users: HashMap<u8, String> } of tests::it_works
TestStructDecl ==
    [name |-> "TestStruct",
     fields |-> << <<"users", "HashMap<u8,String>">> >>]

\* packet_data! { enum TestWriteEnum (->) (u8) { A: 1, B: 2 } }
TestWriteEnumDecl ==
    [name |-> "TestWriteEnum", type |-> "u8",
     variants |-> << <<"A", 1>>, <<"B", 2>> >>]

\* the group of the scenario: BiPackets { TestA (0x01) { b: VarLong,
\* a: Vec<u8> } TestB (0x02) {} }
BiPacketsDecl ==
    [group |-> "BiPackets",
     packets |-> << [name |-> "TestA", id |-> 1,
                     fields |-> << <<"b", "VarLong">>, <<"a", "Vec<u8>">> >>],
                    [name |-> "TestB", id |-> 2, fields |-> << >>] >>]

\* the group of tests::it_works: Packets { TestPacket 0x01 { field: VarInt,
\* arr: Vec<u8>, test: TestStruct } Test2Packet 0x02 {} }
PacketsDecl ==
    [group |-> "Packets",
     packets |-> << [name |-> "TestPacket", id |-> 1,
                     fields |-> << <<"field", "VarInt">>, <<"arr", "Vec<u8>">>,
                                   <<"test", "TestStruct">> >>],
                    [name |-> "Test2Packet", id |-> 2, fields |-> << >>] >>]

\* what packet_data! is invoked with
StructDecls == <<ExampleBiStructDecl, TestStructDecl>>

EnumDecls == <<TestWriteEnumDecl>>

\* what packets! is invoked with
GroupDecls == <<BiPacketsDecl, PacketsDecl>>

StructNames == {StructDecls[j].name : j \in 1..Len(StructDecls)}

StructFields(Name) ==
    StructDecls[CHOOSE j \in 1..Len(StructDecls) : StructDecls[j].name = Name].fields

EnumNames == {EnumDecls[j].name : j \in 1..Len(EnumDecls)}

EnumDecl(Name) ==
    EnumDecls[CHOOSE j \in 1..Len(EnumDecls) : EnumDecls[j].name = Name]

EnumType(Name) == EnumDecl(Name).type

EnumVariants(Name) == EnumDecl(Name).variants

GroupNames == {GroupDecls[j].group : j \in 1..Len(GroupDecls)}

GroupDecl(Group) ==
    GroupDecls[CHOOSE j \in 1..Len(GroupDecls) : GroupDecls[j].group = Group]

\* the names of the packets of a group, in declared order
GroupPackets(Group) ==
    [j \in 1..Len(GroupDecl(Group).packets) |-> GroupDecl(Group).packets[j].name]

PacketNames ==
    UNION {{GroupDecls[j].packets[h].name : h \in 1..Len(GroupDecls[j].packets)} :
              j \in 1..Len(GroupDecls)}

\* the group that declares a packet
GroupOf(Name) ==
    CHOOSE G \in GroupNames :
        \E h \in 1..Len(GroupDecl(G).packets) : GroupDecl(G).packets[h].name = Name

PacketDecl(Name) ==
    LET ps == GroupDecl(GroupOf(Name)).packets
    IN ps[CHOOSE h \in 1..Len(ps) : ps[h].name = Name]

PacketID(Name) == PacketDecl(Name).id

PacketFields(Name) == PacketDecl(Name).fields

---------------------------------------------------------------------------
(* Values.  u8, i8: numbers; bool: BOOLEAN; wider integers: bit vectors;   *)
(* String: its UTF-8 bytes; Vec<T>: a sequence; Option<T>: <<>> for None   *)
(* and <<v>> for Some(v); HashMap<K, V>: its entries <<k, v>> in the order *)
(* the map iterates them (keys distinct); a struct or packet: its field    *)
(* values in declared order; an enum: its variant's name; a group: the     *)
(* record [variant, p] of the packet's name and value.                     *)

\* HashMap::insert
MapInsert(m, k, v) ==
    IF \E j \in 1..Len(m) : m[j][1] = k
    THEN [j \in 1..Len(m) |-> IF m[j][1] = k THEN <<k, v>> ELSE m[j]]
    ELSE Append(m, <<k, v>>)

\* the first variant when no literal is v
FirstVariant_or_first(variants, v) ==
    IF \E j \in 1..Len(variants) : variants[j][2] = v
    THEN CHOOSE j \in 1..Len(variants) :
            /\ variants[j][2] = v
            /\ \A h \in 1..(j - 1) : variants[h][2] # v
    ELSE 1

\* the index of the first variant of an enum whose literal is v, 0 if none
FirstVariant(variants, v) ==
    IF \E j \in 1..Len(variants) : variants[j][2] = v
    THEN CHOOSE j \in 1..Len(variants) :
            /\ variants[j][2] = v
            /\ \A h \in 1..(j - 1) : variants[h][2] # v
    ELSE 0

\* the literal of an enum's variant
VariantValue(variants, name) ==
    LET j == CHOOSE h \in 1..Len(variants) : variants[h][1] = name
    IN variants[j][2]

\* writable_type!: the value a field is written as, and the type whose
\* Writable writes it.  The first three arms match literal tokens (VarInt,
\* VarLong, Vec<..>); impl_struct_mode! and impl_packet_mode! pass the type
\* as a captured `ty` fragment, which no literal token matches, so their
\* calls (frag = "ty") always reach the last arm.
writable_type(frag, T, e) ==
    IF frag = "tokens" /\ T = "VarInt"
    THEN [T |-> "VarInt", v |-> [b \in 1..VarIntWidth |-> e[b]]]
    ELSE IF frag = "tokens" /\ T = "VarLong"
    THEN [T |-> "VarInt", v |-> [b \in 1..VarLongWidth |-> e[b]]]
    ELSE IF frag = "tokens" /\ T \in VecTypes
    THEN [T |-> T, v |-> e]
    ELSE [T |-> T, v |-> e]

---------------------------------------------------------------------------
(* Writable *)

RECURSIVE Write(_, _, _)
RECURSIVE Vec_write_each(_, _, _, _)
RECURSIVE HashMap_write_each(_, _, _, _)
RECURSIVE fields_write(_, _, _, _)
RECURSIVE fields_write_reversed(_, _, _, _)

\* self.iter_mut().for_each(|it| it.write(o).expect(..)), from element k
Vec_write_each(T, self, k, o_) ==
    IF k > Len(self) THEN WOk(o_)
    ELSE LET w == Write(T, self[k], o_)
         IN IF w.st # "ok" THEN WPanic(w.sink)
            ELSE Vec_write_each(T, self, k + 1, w.sink)

Vec_write(T, self, o_) ==
    LET l == VarInt_write(LenAsU32(Len(self)), o_)
    IN IF l.st # "ok" THEN l
       ELSE Vec_write_each(Elem(T), self, 1, l.sink)

Option_write(T, self, o_) ==
    IF self # <<>>
    THEN LET f == bool_write(TRUE, o_)
         IN IF f.st # "ok" THEN f ELSE Write(Elem(T), self[1], f.sink)
    ELSE bool_write(FALSE, o_)

\* for (key, value) in self { K::write(..)?; V::write(..)?; }, from entry k
HashMap_write_each(T, self, k, o_) ==
    IF k > Len(self) THEN WOk(o_)
    ELSE LET wk == Write(Key(T), self[k][1], o_)
             wv == Write(Elem(T), self[k][2], wk.sink)
         IN IF wk.st # "ok" THEN wk
            ELSE IF wv.st # "ok" THEN wv
            ELSE HashMap_write_each(T, self, k + 1, wv.sink)

HashMap_write(T, self, o_) ==
    LET l == VarInt_write(LenAsU32(Len(self)), o_)
    IN IF l.st # "ok" THEN l
       ELSE HashMap_write_each(T, self, 1, l.sink)

\* the fields written last to first
fields_write_reversed(fields, self, k, o_) ==
    IF k > Len(fields) THEN WOk(o_)
    ELSE LET f == Len(fields) + 1 - k
             wt == writable_type("ty", fields[f][2], self[f])
             w == Write(wt.T, wt.v, o_)
         IN IF w.st # "ok" THEN w
            ELSE fields_write_reversed(fields, self, k + 1, w.sink)

\* $(writable_type!($FieldType, &mut self.$Field).write(o)?;)*, from field k
fields_write(fields, self, k, o_) ==
    IF k > Len(fields) THEN WOk(o_)
    ELSE LET wt == writable_type("ty", fields[k][2], self[k])
             w == Write(wt.T, wt.v, o_)
         IN IF w.st # "ok" THEN w
            ELSE fields_write(fields, self, k + 1, w.sink)

\* impl_struct_mode! (->)
struct_write(Name, self, o_) == fields_write(StructFields(Name), self, 1, o_)

\* impl_enum_mode! (->)
enum_write(Name, self, o_) ==
    Write(EnumType(Name), VariantValue(EnumVariants(Name), self), o_)

\* impl_packet_mode! (->)
packet_write(Name, self, o_) ==
    LET d == VarInt_write(Bits(PacketID(Name), VarIntWidth), o_)
    IN IF d.st # "ok" THEN d
       ELSE fields_write(PacketFields(Name), self, 1, d.sink)

Write(T, v, o_) ==
    CASE T = "u8" -> u8_write(v, o_)
      [] T = "i8" -> i8_write(v, o_)
      [] T = "bool" -> bool_write(v, o_)
      [] T = "VarInt" -> VarInt_write(v, o_)
      [] T = "VarLong" -> VarLong_write(v, o_)
      [] T = "String" -> String_write(v, o_)
      [] T \in FixedTypes -> fixed_write(v, o_)
      [] T \in VecTypes -> Vec_write(T, v, o_)
      [] T \in OptionTypes -> Option_write(T, v, o_)
      [] T \in MapTypes -> HashMap_write(T, v, o_)
      [] T \in StructNames -> struct_write(T, v, o_)
      [] T \in EnumNames -> enum_write(T, v, o_)
      [] T \in PacketNames -> packet_write(T, v, o_)

---------------------------------------------------------------------------
(* Readable *)

RECURSIVE Read(_, _)
RECURSIVE Vec_collect(_, _, _, _)
RECURSIVE Vec_collect_partial(_, _, _, _)
RECURSIVE HashMap_read_each(_, _, _, _)
RECURSIVE fields_read(_, _, _, _, _, _)

\* the elements read before the one that fails returned as the list
Vec_collect_partial(T, length, i, acc) ==
    IF length = 0 THEN Ok(acc, i)
    ELSE LET r == Read(T, i)
         IN IF ~r.ok THEN Ok(acc, r.src)
            ELSE Vec_collect_partial(T, length - 1, r.src, Append(acc, r.v))

\* iter::repeat_with(|| T::read(i)).take(length).collect::<Result<Vec<T>>>():
\* the elements read so far are `acc`; the first Err ends the collection and
\* is its result
Vec_collect(T, length, i, acc) ==
    IF length = 0 THEN Ok(acc, i)
    ELSE LET r == Read(T, i)
         IN IF ~r.ok THEN r
            ELSE Vec_collect(T, length - 1, r.src, Append(acc, r.v))

Vec_read(T, i) ==
    LET l == Context(VarInt_read(i), <<"invalid vec length varint">>)
    IN IF ~l.ok THEN l
       ELSE Vec_collect(Elem(T), LenAsUsize(l.v), l.src, <<>>)

Option_read(T, i) ==
    LET exists == bool_read(i)
        r == Read(Elem(T), exists.src)
    IN IF ~exists.ok THEN exists
       ELSE IF exists.v
       THEN (IF r.ok THEN Ok(<<r.v>>, r.src) ELSE r)
       ELSE Ok(<<>>, exists.src)

\* for _ in 0..length { out.insert(K::read(i)?, V::read(i)?); }
HashMap_read_each(T, length, i, out) ==
    IF length = 0 THEN Ok(out, i)
    ELSE LET key == Read(Key(T), i)
             value == Read(Elem(T), key.src)
         IN IF ~key.ok THEN key
            ELSE IF ~value.ok THEN value
            ELSE HashMap_read_each(T, length - 1, value.src,
                                   MapInsert(out, key.v, value.v))

HashMap_read(T, i) ==
    LET l == Context(VarInt_read(i), <<"invalid hashmap length varint">>)
    IN IF ~l.ok THEN l
       ELSE HashMap_read_each(T, LenAsUsize(l.v), l.src, <<>>)

\* $(let $Field = <$FieldType>::read(i).context(..)?.into();)* Ok(Self {..}),
\* from field k, with the fields read so far in `acc`
fields_read(what, Name, fields, k, i, acc) ==
    IF k > Len(fields) THEN Ok(acc, i)
    ELSE LET r == Context(Read(fields[k][2], i),
                          <<"failed to read field", fields[k][1], what, Name>>)
         IN IF ~r.ok THEN r
            ELSE fields_read(what, Name, fields, k + 1, r.src, Append(acc, r.v))

\* impl_struct_mode! (<-)
struct_read(Name, i) == fields_read("struct", Name, StructFields(Name), 1, i, <<>>)

\* impl_enum_mode! (<-)
enum_read(Name, i) ==
    LET value == Context(Read(EnumType(Name), i),
                         <<"failed to read value for enum", Name>>)
        j == FirstVariant(EnumVariants(Name), value.v)
    IN IF ~value.ok THEN value
       ELSE IF j # 0 THEN Ok(EnumVariants(Name)[j][1], value.src)
       ELSE Err(Error("invalid enum value", <<value.v>>), value.src)

\* impl_packet_mode! (<-)
packet_read(Name, i) == fields_read("packet", Name, PacketFields(Name), 1, i, <<>>)

\* an ID that no arm matches taken for the first packet's
MatchPacket_default_first(Group, p_id) ==
    LET names == GroupPackets(Group)
        hit(j) == p_id = Bits(PacketID(names[j]), VarIntWidth)
    IN IF \E j \in 1..Len(names) : hit(j)
       THEN CHOOSE j \in 1..Len(names) : hit(j) /\ \A h \in 1..(j - 1) : ~hit(h)
       ELSE 1

\* the index of the first packet of the group whose ID is p_id, 0 if none
MatchPacket(Group, p_id) ==
    LET names == GroupPackets(Group)
        hit(j) == p_id = Bits(PacketID(names[j]), VarIntWidth)
    IN IF \E j \in 1..Len(names) : hit(j)
       THEN CHOOSE j \in 1..Len(names) : hit(j) /\ \A h \in 1..(j - 1) : ~hit(h)
       ELSE 0

\* impl_group_mode! (<-)
group_read(Group, i) ==
    LET p_id == VarInt_read(i)
        j == MatchPacket(Group, p_id.v)
        Name == GroupPackets(Group)[j]
        p == packet_read(Name, p_id.src)
    IN IF ~p_id.ok THEN p_id
       ELSE IF j # 0
       THEN (IF p.ok THEN Ok([variant |-> Name, p |-> p.v], p.src) ELSE p)
       ELSE Err(Error("unknown packet id", p_id.v), p_id.src)

Read(T, i) ==
    CASE T = "u8" -> u8_read(i)
      [] T = "i8" -> i8_read(i)
      [] T = "bool" -> bool_read(i)
      [] T = "VarInt" -> VarInt_read(i)
      [] T = "VarLong" -> VarLong_read(i)
      [] T = "String" -> String_read(i)
      [] T \in FixedTypes -> fixed_read(i, FixedBytes(T))
      [] T \in VecTypes -> Vec_read(T, i)
      [] T \in OptionTypes -> Option_read(T, i)
      [] T \in MapTypes -> HashMap_read(T, i)
      [] T \in StructNames -> struct_read(T, i)
      [] T \in EnumNames -> enum_read(T, i)
      [] T \in PacketNames -> packet_read(T, i)
      [] T \in GroupNames -> group_read(T, i)

---------------------------------------------------------------------------
(* Packets and their group.  Option<Self> is <<>> for None, <<p>> for      *)
(* Some(p).                                                                *)

\* impl From<$Name> for $Group: $Group::$Name(p)
Group_from(Name, p) == [variant |-> Name, p |-> p]

\* fn id() -> VarInt { VarInt($ID as u32) }
PacketVariant_id(Name) == Bits(PacketID(Name), VarIntWidth)

\* fn destructure(e: $Group) -> Option<Self>
PacketVariant_destructure(Name, e) ==
    IF e.variant = Name THEN <<e.p>> ELSE <<>>

---------------------------------------------------------------------------
(* What the macros generate.  An expansion is [ok, impls]: whether rustc   *)
(* accepts it, and the trait implementations <<trait, type>> it holds.     *)

Expanded(impls) == [ok |-> TRUE, impls |-> impls]

\* no rule of the macro matches its input: the build fails
NoRuleMatches == [ok |-> FALSE, impls |-> {}]

Both(a, b) ==
    IF a.ok /\ b.ok THEN Expanded(a.impls \cup b.impls) ELSE NoRuleMatches

RECURSIVE All(_)
All(expansions) ==
    IF expansions = <<>> THEN Expanded({})
    ELSE Both(Head(expansions), All(Tail(expansions)))

impl_struct_mode(Mode, Name) ==
    CASE Mode = "<-" -> Expanded({<<"Readable", Name>>})
      [] Mode = "->" -> Expanded({<<"Writable", Name>>})
      [] Mode = "<->" -> Expanded({<<"Readable", Name>>, <<"Writable", Name>>})
      [] OTHER -> NoRuleMatches

impl_enum_mode(Mode, Name) ==
    CASE Mode = "<-" -> Expanded({<<"Readable", Name>>})
      [] Mode = "->" -> Expanded({<<"Writable", Name>>})
      [] Mode = "<->" -> Expanded({<<"Readable", Name>>, <<"Writable", Name>>})
      [] OTHER -> NoRuleMatches

impl_packet_mode(Mode, Name) ==
    CASE Mode = "<-" -> Expanded({<<"Readable", Name>>})
      [] Mode = "->" -> Expanded({<<"Writable", Name>>})
      [] Mode = "<->" -> Expanded({<<"Readable", Name>>, <<"Writable", Name>>})
      [] OTHER -> NoRuleMatches

\* the (<-) arm of impl_group_mode!
group_read_impls(Group, names) ==
    {<<"Readable", Group>>}
        \cup {<<"From", names[j]>> : j \in 1..Len(names)}
        \cup {<<"PacketVariant", names[j]>> : j \in 1..Len(names)}

\* impl_group_mode! on the token trees it is invoked with.  Its arms are
\* `(<-) $Group {..}`, `(<->) $Group {..}` and `(->)` alone.
impl_group_mode(tokens) ==
    IF Len(tokens) = 3 /\ tokens[1] = "<-"
    THEN Expanded(group_read_impls(tokens[2], tokens[3]))
    ELSE IF Len(tokens) = 3 /\ tokens[1] = "<->"
    THEN Expanded(group_read_impls(tokens[2], tokens[3]))
    ELSE IF Len(tokens) = 1 /\ tokens[1] = "->"
    THEN Expanded({})
    ELSE NoRuleMatches

\* packets! for one group: impl_packet_mode!($Mode $Name $ID {..}) for each
\* packet, then impl_group_mode!($Mode $Group {..})
packets_group(Mode, Group) ==
    LET names == GroupPackets(Group)
    IN Both(All([j \in 1..Len(names) |-> impl_packet_mode(Mode, names[j])]),
            impl_group_mode(<<Mode, Group, names>>))

\* packet_data!: impl_packet_data! for each struct and enum declared
packet_data(Mode) ==
    Both(All([j \in 1..Len(StructDecls) |->
                 impl_struct_mode(Mode, StructDecls[j].name)]),
         All([j \in 1..Len(EnumDecls) |->
                 impl_enum_mode(Mode, EnumDecls[j].name)]))

\* packets!: every group declared
packets(Mode) ==
    All([j \in 1..Len(GroupDecls) |-> packets_group(Mode, GroupDecls[j].group)])

\* the whole schema, every item declared with the direction Mode
Schema(Mode) == Both(packet_data(Mode), packets(Mode))

RECURSIVE Implements(_, _, _)
\* T: trait, given the generated implementations
Implements(trait, T, impls) ==
    CASE T \in VecTypes \cup OptionTypes -> Implements(trait, Elem(T), impls)
      [] T \in MapTypes ->
            Implements(trait, Key(T), impls) /\ Implements(trait, Elem(T), impls)
      [] T \in StructNames \cup EnumNames \cup PacketNames \cup GroupNames ->
            <<trait, T>> \in impls
      [] OTHER -> TRUE

---------------------------------------------------------------------------
(* The inputs *)

\* the number of values written to one sink
MaxWrites == 2

\* the number of values read from one source
MaxReads == 2

\* the most bytes a sink holding several values holds
MaxStream == 16

\* the largest room of a sink of limited room
MaxRoom == 2

\* the longest run of continuation-flagged bytes of a crafted buffer
MaxCont == 11

\* the string of n bytes 'a'
Str(n) == [k \in 1..n |-> 97]

HelloWorld == <<72, 101, 108, 108, 111, 32, 119, 111, 114, 108, 100>>

StringValues ==
    {<<>>, <<97>>, <<195, 169>>, HelloWorld,
     Str(MaxStringLength), Str(MaxStringLength + 1)}

VarIntValues ==
    {Bits(n, VarIntWidth) :
        n \in {0, 1, 12, 127, 128, 255, 300, 16383, 16384, 2097151, 2097152,
               268435455, 268435456}}
    \cup {Ones(VarIntWidth), OnlyBit(VarIntWidth, VarIntWidth)}

VarLongValues ==
    {Bits(n, VarLongWidth) : n \in {0, 1, 127, 128, 300, 16384, 268435456}}
    \cup {LowOnes(k, VarLongWidth) : k \in {32, 35, 56, 63, 64}}
    \cup {OnlyBit(k, VarLongWidth) : k \in {33, 36, 57, 64}}

MapValues ==
    {<<>>, << <<25, HelloWorld>> >>,
     << <<25, HelloWorld>>, <<7, <<97>>>> >>,
     << <<7, <<97>>>>, <<25, HelloWorld>> >>,
     << <<25, Str(MaxStringLength + 1)>> >>}

ValuesOf(T) ==
    CASE T = "u8" -> {0, 1, 2, 255}
      [] T = "i8" -> {-128, -1, 0, 127}
      [] T = "bool" -> BOOLEAN
      [] T = "VarInt" -> VarIntValues
      [] T = "VarLong" -> VarLongValues
      [] T = "String" -> StringValues
      [] T = "u16" -> {Bits(0, 16), Bits(258, 16), Ones(16)}
      [] T = "u32" -> {Bits(16909060, 32), Ones(32)}
      [] T = "u64" -> {Bits(1, 64), OnlyBit(64, 64)}
      [] T = "Vec<u8>" -> {<<>>, <<1, 2, 5>>, <<0, 2>>}
      [] T = "Vec<bool>" -> {<<>>, <<TRUE, FALSE>>}
      [] T = "Vec<String>" -> {<<>>, <<<<97>>, <<>>, <<195, 169>>>>}
      [] T = "Option<u8>" -> {<<>>, <<0>>, <<1>>}
      [] T = "Option<String>" -> {<<>>, <<<<>>>>, <<HelloWorld>>}
      [] T = "HashMap<u8,String>" -> MapValues
      [] T = "ExampleBiStruct" -> {<<0, <<>>>>, <<2, HelloWorld>>}
      [] T = "TestStruct" -> {<<m>> : m \in MapValues}
      [] T = "TestWriteEnum" -> {"A", "B"}
      [] T = "TestA" ->
            {<<LowOnes(32, VarLongWidth), <<1, 2, 5>>>>,
             <<Bits(0, VarLongWidth), <<>>>>,
             <<Ones(VarLongWidth), <<0, 2>>>>}
      [] T = "TestB" -> {<<>>}
      [] T = "TestPacket" ->
            {<<Bits(12, VarIntWidth), <<0, 2>>, << << <<25, HelloWorld>> >> >> >>,
             <<Ones(VarIntWidth), <<>>, << <<>> >> >>,
             <<Bits(12, VarIntWidth), <<0, 2>>,
               << << <<25, Str(MaxStringLength + 1)>> >> >> >>}
      [] T = "Test2Packet" -> {<<>>}

WritableTypes ==
    {"u8", "i8", "bool", "VarInt", "VarLong", "String"} \cup FixedTypes
        \cup VecTypes \cup OptionTypes \cup MapTypes
        \cup StructNames \cup EnumNames \cup PacketNames

ReadableTypes == WritableTypes \cup GroupNames

\* the type a value written as T is read back as: a packet writes its own
\* ID and is read through its group, as tests::it_works does
ReadBackType(T) == IF T \in PacketNames THEN GroupOf(T) ELSE T

\* the value a value v written as T is expected to be read back as
ReadBackValue(T, v) ==
    IF T \in PacketNames THEN [variant |-> T, p |-> v] ELSE v

\* n bytes b
Run(n, b) == [k \in 1..n |-> b]

\* buffers that no encoder need have written
CraftedBuffers ==
    {Run(n, b) \o tail :
        n \in 0..MaxCont, b \in {128, 255}, tail \in {<<>>, <<0>>, <<1>>, <<127>>}}
    \cup {<<2>>, <<255>>, <<2, 5>>, <<1, 5>>, <<1, 3, 97>>,
          <<3, 1, 2>>, <<3, 1, 2, 0>>, <<2, 0, 1, 9>>, <<3, 97>>,
          <<2, 195, 40>>, <<2, 195, 169>>, <<1, 128>>,
          <<128, 128, 2>>, <<128, 128, 2, 97, 97>>,
          <<3>>, <<0>>, <<129, 0>>, <<130, 0, 7>>, <<1, 4, 1, 9>>, <<1, 4, 2, 9>>,
          <<1, 1, 25, 1, 97>>, <<2, 25, 1, 97, 25, 0>>, <<1, 25, 200>>, <<3, 9>>}

---------------------------------------------------------------------------
(* The program: the schema is expanded and, if the build accepts it,       *)
(* values are written to a sink and read back from a cursor on its bytes,  *)
(* or read from a crafted buffer                                           *)

\* no PacketVariant call has been made
NoCall == [Q |-> "", id |-> <<>>, via |-> "none", e |-> <<>>, r |-> <<>>]

Init ==
    /\ mode \in Modes
    /\ gen = [done |-> FALSE, ok |-> FALSE, impls |-> {}]
    /\ o = NewSink(-1)
    /\ wres = "none"
    /\ log = <<>>
    /\ s = NewCursor(<<>>)
    /\ origin = "none"
    /\ reads = <<>>
    /\ pv = NoCall
    /\ calls = <<>>
    /\ frames = <<>>

\* the build: packet_data! and packets! are expanded
Expand ==
    /\ ~gen.done
    /\ gen' = [done |-> TRUE, ok |-> Schema(mode).ok, impls |-> Schema(mode).impls]
    /\ UNCHANGED <<mode, o, wres, log, s, origin, reads, pv, calls, frames>>

\* the caller hands a sink of limited room instead of a Vec<u8>
UseSlice(room) ==
    /\ gen.done /\ gen.ok
    /\ wres = "none" /\ origin = "none" /\ o.room < 0
    /\ o' = NewSink(room)
    /\ UNCHANGED <<mode, gen, wres, log, s, origin, reads, pv, calls, frames>>

\* v.write(&mut o).  A sink is a stream of values of one type, or of the
\* packets of one group.
WriteValue(T, v) ==
    /\ gen.done /\ gen.ok
    /\ origin = "none"
    /\ wres \in {"none", "ok"}
    /\ Len(log) < MaxWrites
    /\ Len(log) > 0 => ReadBackType(T) = ReadBackType(log[1].T)
    /\ Implements("Writable", T, gen.impls)
    /\ LET w == Write(T, v, o)
       IN /\ Len(log) > 0 => Len(w.sink.buf) <= MaxStream
          /\ o' = w.sink
          /\ wres' = w.st
          /\ log' = IF w.st = "ok" THEN Append(log, [T |-> T, v |-> v]) ELSE log
    /\ UNCHANGED <<mode, gen, s, origin, reads, pv, calls, frames>>

\* let mut s = Cursor::new(o): the bytes written move into the cursor
OpenCursor ==
    /\ origin = "none"
    /\ wres = "ok"
    /\ s' = NewCursor(o.buf)
    /\ o' = NewSink(-1)
    /\ origin' = "sink"
    /\ UNCHANGED <<mode, gen, wres, log, reads, pv, calls, frames>>

\* a cursor on bytes that come from elsewhere
Craft(bytes) ==
    /\ gen.done /\ gen.ok
    /\ origin = "none"
    /\ wres = "none" /\ o.room < 0
    /\ s' = NewCursor(bytes)
    /\ origin' = "crafted"
    /\ UNCHANGED <<mode, gen, o, wres, log, reads, pv, calls, frames>>

\* T::read(&mut s).  From a cursor on the sink's bytes the values are read
\* back in the order they were written; a crafted buffer is read as a
\* stream of one type.  A failed read is the last.
ReadValue(T) ==
    /\ origin # "none"
    /\ Len(reads) < MaxReads
    /\ \A k \in 1..Len(reads) : reads[k].ok
    /\ Implements("Readable", T, gen.impls)
    /\ Len(reads) > 0 => T = reads[1].T
    /\ origin = "sink" =>
          /\ Len(reads) < Len(log)
          /\ T = ReadBackType(log[Len(reads) + 1].T)
    /\ LET r == Read(T, s)
       IN /\ s' = r.src
          /\ reads' = Append(reads,
                [T |-> T, ok |-> r.ok, v |-> r.v, err |-> r.err,
                 from |-> s.pos, to |-> r.src.pos,
                 alloc |-> r.src.alloc - s.alloc])
    /\ UNCHANGED <<mode, gen, o, wres, log, origin, pv, calls, frames>>

\* Q::id() and Q::destructure(e) on the group value e that read k returned
DestructureRead(Q, k) ==
    /\ gen.done /\ gen.ok
    /\ Implements("PacketVariant", Q, gen.impls)
    /\ k \in 1..Len(reads)
    /\ reads[k].ok /\ reads[k].T = GroupOf(Q)
    /\ pv' = [Q |-> Q, id |-> PacketVariant_id(Q), via |-> "read",
              e |-> reads[k].v,
              r |-> PacketVariant_destructure(Q, reads[k].v)]
    /\ UNCHANGED <<mode, gen, o, wres, log, s, origin, reads, calls, frames>>

\* Q::id() and Q::destructure(Group::from(p)) on the packet p of write k
DestructureFrom(Q, k) ==
    /\ gen.done /\ gen.ok
    /\ Implements("PacketVariant", Q, gen.impls)
    /\ k \in 1..Len(log)
    /\ log[k].T \in PacketNames /\ GroupOf(log[k].T) = GroupOf(Q)
    /\ Implements("From", log[k].T, gen.impls)
    /\ pv' = [Q |-> Q, id |-> PacketVariant_id(Q), via |-> "from",
              e |-> Group_from(log[k].T, log[k].v),
              r |-> PacketVariant_destructure(Q, Group_from(log[k].T, log[k].v))]
    /\ UNCHANGED <<mode, gen, o, wres, log, s, origin, reads, calls, frames>>

Next ==
    \/ Expand
    \/ \E room \in 0..MaxRoom : UseSlice(room)
    \/ \E T \in WritableTypes : \E v \in ValuesOf(T) : WriteValue(T, v)
    \/ OpenCursor
    \/ \E bytes \in CraftedBuffers : Craft(bytes)
    \/ \E T \in ReadableTypes : ReadValue(T)
    \/ \E Q \in PacketNames : \E k \in 1..MaxReads : DestructureRead(Q, k)
    \/ \E Q \in PacketNames : \E k \in 1..MaxWrites : DestructureFrom(Q, k)

Spec == Init /\ [][Next]_vars

---------------------------------------------------------------------------
(* Calls running concurrently.  Each thread runs one VarInt / VarLong read *)
(* or write on a source or sink of its own, one iteration of the call's    *)
(* loop at a time, and the threads' iterations interleave.                 *)

\* the number of threads
NumThreads == 2

Threads == 1..NumThreads

\* T::read(&mut Cursor::new(bytes))
ReadCall(T, bytes) ==
    [op |-> "read", T |-> T, v |-> <<>>, room |-> -1,
     src |-> NewCursor(bytes), sink |-> NewSink(-1), pc |-> "start", res |-> <<>>]

\* T(v).write(&mut sink), the sink with the given room
WriteCall(T, v, room) ==
    [op |-> "write", T |-> T, v |-> v, room |-> room,
     src |-> NewCursor(<<>>), sink |-> NewSink(room), pc |-> "start", res |-> <<>>]

\* the calls a thread may run
Calls ==
    {ReadCall("VarInt", <<172, 2>>), ReadCall("VarInt", <<128>>),
     ReadCall("VarLong", <<128, 128, 1, 7>>),
     WriteCall("VarInt", Bits(300, VarIntWidth), -1),
     WriteCall("VarInt", Bits(300, VarIntWidth), 1),
     WriteCall("VarLong", Bits(16384, VarLongWidth), -1)}

\* the locals as statics of the function: the calls of the same function
\* share them
Frame_static(t) ==
    CHOOSE u \in Threads :
        /\ calls[u].op = calls[t].op /\ calls[u].T = calls[t].T
        /\ \A w \in Threads :
              (calls[w].op = calls[t].op /\ calls[w].T = calls[t].T) => u <= w

\* the locals of a call are in the stack frame of the thread that runs it
Frame(t) == t

\* let mut byte_offset = 0; let mut result = 0; / let mut x = self.0;
NewFrame(call) ==
    [byte_offset |-> 0, result |-> Zeros(VarWidth(call.T)),
     x |-> IF call.op = "write" THEN call.v ELSE Zeros(VarWidth(call.T))]

InitThreads ==
    /\ mode = "<->"
    /\ gen = [done |-> FALSE, ok |-> FALSE, impls |-> {}]
    /\ o = NewSink(-1)
    /\ wres = "none"
    /\ log = <<>>
    /\ s = NewCursor(<<>>)
    /\ origin = "none"
    /\ reads = <<>>
    /\ pv = NoCall
    /\ calls \in [Threads -> Calls]
    /\ frames = [t \in Threads |-> NewFrame(calls[t])]

\* thread t enters its call: the locals are initialised
Enter(t) ==
    /\ calls[t].pc = "start"
    /\ frames' = [frames EXCEPT ![Frame(t)] = NewFrame(calls[t])]
    /\ calls' = [calls EXCEPT ![t].pc = "loop"]
    /\ UNCHANGED <<mode, gen, o, wres, log, s, origin, reads, pv>>

\* thread t runs one iteration of the loop of its read
ReadIteration(t) ==
    /\ calls[t].pc = "loop" /\ calls[t].op = "read"
    /\ LET f == frames[Frame(t)]
           b == read_loop_body(calls[t].T, calls[t].src, f.byte_offset, f.result)
       IN /\ frames' = [frames EXCEPT ![Frame(t)].byte_offset = b.byte_offset,
                                      ![Frame(t)].result = b.result]
          /\ calls' = [calls EXCEPT ![t].pc = b.pc, ![t].src = b.res.src,
                                    ![t].res = IF b.pc = "done" THEN b.res ELSE <<>>]
    /\ UNCHANGED <<mode, gen, o, wres, log, s, origin, reads, pv>>

\* thread t runs one iteration of the loop of its write
WriteIteration(t) ==
    /\ calls[t].pc = "loop" /\ calls[t].op = "write"
    /\ LET f == frames[Frame(t)]
           b == write_loop_body(f.x, calls[t].sink)
       IN /\ frames' = [frames EXCEPT ![Frame(t)].x = b.x]
          /\ calls' = [calls EXCEPT ![t].pc = b.pc, ![t].sink = b.res.sink,
                                    ![t].res = IF b.pc = "done" THEN b.res ELSE <<>>]
    /\ UNCHANGED <<mode, gen, o, wres, log, s, origin, reads, pv>>

NextThreads ==
    \/ \E t \in Threads : Enter(t)
    \/ \E t \in Threads : ReadIteration(t)
    \/ \E t \in Threads : WriteIteration(t)

SpecThreads == InitThreads /\ [][NextThreads]_vars

---------------------------------------------------------------------------
(* Vocabulary of the properties *)

\* the bytes v encodes to, written as T to an empty sink that never fails
Encoding(T, v) == Write(T, v, NewSink(-1)).sink.buf

RECURSIVE ValEq(_, _, _)
\* a == b of two values of type T (PartialEq); two maps are equal when they
\* hold the same entries, whatever order they iterate them in
ValEq(T, a, b) ==
    CASE T \in MapTypes ->
            {a[j] : j \in 1..Len(a)} = {b[j] : j \in 1..Len(b)}
      [] T \in VecTypes \cup OptionTypes ->
            /\ Len(a) = Len(b)
            /\ \A j \in 1..Len(a) : ValEq(Elem(T), a[j], b[j])
      [] T \in StructNames ->
            \A j \in 1..Len(StructFields(T)) :
                ValEq(StructFields(T)[j][2], a[j], b[j])
      [] T \in PacketNames ->
            \A j \in 1..Len(PacketFields(T)) :
                ValEq(PacketFields(T)[j][2], a[j], b[j])
      [] T \in GroupNames ->
            a.variant = b.variant /\ ValEq(a.variant, a.p, b.p)
      [] OTHER -> a = b

\* the 7-bit group k (1 = least significant) of the bit vector x
Group7(x, k) ==
    LET bit(j) == IF j <= Len(x) THEN x[j] ELSE 0
    IN bit(7 * k - 6) + 2 * bit(7 * k - 5) + 4 * bit(7 * k - 4)
        + 8 * bit(7 * k - 3) + 16 * bit(7 * k - 2) + 32 * bit(7 * k - 1)
        + 64 * bit(7 * k)

\* ceil(bitlength(x) / 7), and 1 for x = 0
MinimalBytes(x) == IF NonZero(x) THEN (BitLength(x) + 6) \div 7 ELSE 1

VarTypes == {"VarInt", "VarLong"}

\* the sink holds one value, of type T, and nothing else
WroteOne(T) == Len(log) = 1 /\ log[1].T = T /\ wres = "ok" /\ origin = "none"

\* the bytes of the source from position p (0-based) on
Rest(p) == SubSeq(s.data, p + 1, Len(s.data))

\* the number of leading continuation-flagged bytes of a byte sequence
RECURSIVE LeadingCont(_)
LeadingCont(bytes) ==
    IF bytes # <<>> /\ Head(bytes) >= 128 THEN 1 + LeadingCont(Tail(bytes)) ELSE 0

\* the most bytes an encoding of the type may have
MaxVarBytes(T) == IF T = "VarInt" THEN 5 ELSE 10

---------------------------------------------------------------------------
(* C2 *)

\* C2: VarInt and VarLong encode emit the value's 7-bit groups least
\* significant first, with the high bit set on every byte but the last, in
\* the minimal number of bytes: one for 0, otherwise ceil(bitlength / 7).
\* In particular 0 -> 00, 127 -> 7F, 128 -> 80 01, 300 -> AC 02 and
\* 16384 -> 80 80 01.
VarEncodeMinimal ==
    \A T \in VarTypes :
        WroteOne(T) =>
            LET v == log[1].v
                w == IF T = "VarInt" THEN VarIntWidth ELSE VarLongWidth
            IN /\ Len(o.buf) = MinimalBytes(v)
               /\ \A k \in 1..Len(o.buf) :
                     /\ o.buf[k] % 128 = Group7(v, k)
                     /\ o.buf[k] >= 128 <=> k < Len(o.buf)
               /\ v = Bits(0, w) => o.buf = <<0>>
               /\ v = Bits(127, w) => o.buf = <<127>>
               /\ v = Bits(128, w) => o.buf = <<128, 1>>
               /\ v = Bits(300, w) => o.buf = <<172, 2>>
               /\ v = Bits(16384, w) => o.buf = <<128, 128, 1>>

\* 2^32 - 1 was written as a VarInt, in five bytes
VarEncodeWitness ==
    WroteOne("VarInt") /\ log[1].v = Ones(VarIntWidth) /\ Len(o.buf) = 5

---------------------------------------------------------------------------
(* C3 *)

\* C3: a VarInt decode that consumes more than 5 bytes without meeting a
\* byte with a clear continuation bit among the first 5 fails with an
\* overflow error, and so does a VarLong decode past 10 bytes (11
\* continuation-flagged bytes fail); every encoding that terminates within
\* 5 (resp. 10) bytes decodes without error.
VarDecodeOverflow ==
    \A k \in 1..Len(reads) :
        reads[k].T \in VarTypes =>
            LET max == MaxVarBytes(reads[k].T)
                rest == Rest(reads[k].from)
                cont == LeadingCont(rest)
            IN /\ (cont >= max /\ Len(rest) > max) =>
                     /\ ~reads[k].ok
                     /\ reads[k].err.kind = "overflow"
               /\ cont < max /\ cont < Len(rest) =>
                     /\ reads[k].ok
                     /\ reads[k].to = reads[k].from + cont + 1

\* eleven continuation-flagged bytes were read as a VarLong
VarDecodeOverflowWitness ==
    /\ Len(reads) = 1 /\ reads[1].T = "VarLong"
    /\ s.data = Run(11, 128)
    /\ reads[1].err.kind = "overflow"

---------------------------------------------------------------------------
(* C8 *)

\* C8: a boolean is written as exactly one byte, 01 for true and 00 for
\* false; it is read as false from 00 and as true from 01, and every other
\* byte fails with an invalid-boolean error, which also fails the decode of
\* an Option whose presence flag is neither 00 nor 01.
BooleanStrict ==
    /\ WroteOne("bool") => o.buf = (IF log[1].v THEN <<1>> ELSE <<0>>)
    /\ \A k \in 1..Len(reads) :
          LET rest == Rest(reads[k].from)
          IN /\ (reads[k].T = "bool" /\ rest # <<>>) =>
                   /\ rest[1] = 0 => reads[k].ok /\ reads[k].v = FALSE
                   /\ rest[1] = 1 => reads[k].ok /\ reads[k].v = TRUE
                   /\ rest[1] > 1 =>
                         ~reads[k].ok /\ reads[k].err.kind = "invalid boolean"
                   /\ reads[k].to = reads[k].from + 1
             /\ (reads[k].T \in OptionTypes /\ rest # <<>> /\ rest[1] > 1) =>
                   ~reads[k].ok /\ reads[k].err.kind = "invalid boolean"

\* the byte 02 was read as a bool, and as the flag of an Option
BooleanStrictWitness ==
    /\ Len(reads) = 1
    /\ reads[1].T \in {"bool", "Option<u8>"}
    /\ s.data = <<2, 5>>
    /\ reads[1].err.kind = "invalid boolean"

---------------------------------------------------------------------------
(* C1 *)

\* C1: for every supported type and every value v of it, decoding the bytes
\* produced by encoding v succeeds and returns a value equal to v.
RoundTrip ==
    origin = "sink" =>
        \A k \in 1..Len(reads) :
            /\ reads[k].ok
            /\ ValEq(reads[k].T, reads[k].v, ReadBackValue(log[k].T, log[k].v))

---------------------------------------------------------------------------
(* C4 *)

\* the length prefix of the String read k, decoded on its own
StringPrefix(k) == VarInt_read(NewCursor(Rest(reads[k].from)))

\* C4: a string of exactly 32767 bytes encodes and decodes with success;
\* encoding a string of 32768 bytes fails; decoding a buffer whose length
\* prefix is 32768 or more fails with a length-exceeded error before any
\* payload byte is allocated or consumed.
StringLengthBoundary ==
    /\ \A k \in 1..Len(log) :
          log[k].T = "String" => Len(log[k].v) <= MaxStringLength
    /\ \A k \in 1..Len(reads) :
          reads[k].T = "String" =>
              /\ (origin = "sink" /\ Len(log[k].v) = MaxStringLength) =>
                    reads[k].ok /\ reads[k].v = log[k].v
              /\ (StringPrefix(k).ok
                    /\ LenAsUsize(StringPrefix(k).v) > MaxStringLength) =>
                    /\ ~reads[k].ok
                    /\ reads[k].err.kind = "string length"
                    /\ reads[k].alloc = 0
                    /\ reads[k].to = reads[k].from + StringPrefix(k).src.pos

---------------------------------------------------------------------------
(* C5 *)

\* the discriminant of the group read k, decoded on its own
Discriminant(k) == VarInt_read(NewCursor(Rest(reads[k].from)))

\* the packets of a group declared with the ID id
Declared(Group, id) ==
    {P \in PacketNames :
        GroupOf(P) = Group /\ Bits(PacketID(P), VarIntWidth) = id}

\* C5: decoding a packet group reads the leading VarInt discriminant; if it
\* is a declared packet ID the result is that packet's variant decoded from
\* the bytes that follow; for every other discriminant the decode fails with
\* an unknown-packet error carrying exactly that ID, returns no variant and
\* consumes nothing after the discriminant.
UnknownPacketRejected ==
    \A k \in 1..Len(reads) :
        (reads[k].T \in GroupNames /\ Discriminant(k).ok) =>
            LET d == Discriminant(k)
                known == Declared(reads[k].T, d.v)
            IN /\ known = {} =>
                     /\ ~reads[k].ok
                     /\ reads[k].v = <<>>
                     /\ reads[k].err.kind = "unknown packet id"
                     /\ reads[k].err.arg = d.v
                     /\ reads[k].to = reads[k].from + d.src.pos
               /\ \A P \in known :
                     LET body == Read(P, d.src)
                     IN /\ reads[k].ok = body.ok
                        /\ reads[k].ok =>
                              reads[k].v = [variant |-> P, p |-> body.v]
                        /\ ~reads[k].ok =>
                              reads[k].err.kind # "unknown packet id"
                        /\ reads[k].to = reads[k].from + body.src.pos

\* a stream whose discriminant is 3, an ID no packet has, was read as a group
UnknownPacketWitness ==
    /\ Len(reads) = 1 /\ reads[1].T = "BiPackets"
    /\ s.data = <<3, 9>>
    /\ reads[1].err.kind = "unknown packet id"
    /\ reads[1].err.arg = Bits(3, VarIntWidth)
    /\ reads[1].to = 1

---------------------------------------------------------------------------
(* C6 *)

RECURSIVE FieldEncodings(_, _, _)
\* the encodings of the fields k.. of a packet, one after the other
FieldEncodings(fields, v, k) ==
    IF k > Len(fields) THEN <<>>
    ELSE Encoding(fields[k][2], v[k]) \o FieldEncodings(fields, v, k + 1)

TestAValue == <<LowOnes(32, VarLongWidth), <<1, 2, 5>>>>

TestABytes == <<1, 255, 255, 255, 255, 15, 3, 1, 2, 5>>

\* C6: a packet is encoded as its ID as a VarInt followed by the encodings
\* of its fields in declared order, with no field tags, and decoded by
\* reading the fields in that order.  TestA{b = 4294967295, a = [1, 2, 5]}
\* encodes to 01 FF FF FF FF 0F 03 01 02 05, which decodes to the same
\* value, and TestB encodes and decodes as 02.
PacketLayout ==
    /\ \A P \in PacketNames :
          WroteOne(P) =>
              o.buf = Encoding("VarInt", Bits(PacketID(P), VarIntWidth))
                          \o FieldEncodings(PacketFields(P), log[1].v, 1)
    /\ (WroteOne("TestA") /\ log[1].v = TestAValue) => o.buf = TestABytes
    /\ WroteOne("TestB") => o.buf = <<2>>
    /\ \A k \in 1..Len(reads) :
          reads[k].T = "BiPackets" =>
              /\ Rest(reads[k].from) = TestABytes =>
                    /\ reads[k].ok
                    /\ reads[k].v = [variant |-> "TestA", p |-> TestAValue]
                    /\ reads[k].to = Len(s.data)
              /\ Rest(reads[k].from) = <<2>> =>
                    /\ reads[k].ok
                    /\ reads[k].v = [variant |-> "TestB", p |-> <<>>]
              /\ Rest(reads[k].from) = <<1, 4, 1, 9>> =>
                    /\ reads[k].ok
                    /\ reads[k].v = [variant |-> "TestA",
                                     p |-> <<Bits(4, VarLongWidth), <<9>>>>]

\* TestA{b = 4294967295, a = [1, 2, 5]} was written and read back
PacketLayoutWitness ==
    /\ Len(log) = 1 /\ log[1].T = "TestA" /\ log[1].v = TestAValue
    /\ s.data = TestABytes
    /\ origin = "sink" /\ Len(reads) = 1
    /\ reads[1].T = "BiPackets" /\ reads[1].ok
    /\ reads[1].v.variant = "TestA" /\ reads[1].v.p = TestAValue

---------------------------------------------------------------------------
(* C7 *)

\* C7: for a group declared (<-) only decode is generated for the group and
\* its packets and no encode; for (->) only encode and no decode; for (<->)
\* every packet of the group has both a decode and an encode.
DirectionGating ==
    gen.done =>
        \A G \in GroupNames :
            \A j \in 1..Len(GroupPackets(G)) :
                LET P == GroupPackets(G)[j]
                    readable == <<"Readable", P>> \in gen.impls
                    writable == <<"Writable", P>> \in gen.impls
                    group_readable == <<"Readable", G>> \in gen.impls
                    group_writable == <<"Writable", G>> \in gen.impls
                IN /\ mode = "<-" =>
                         readable /\ group_readable /\ ~writable /\ ~group_writable
                   /\ mode = "->" =>
                         writable /\ ~readable /\ ~group_readable
                   /\ mode = "<->" =>
                         readable /\ writable /\ group_readable

---------------------------------------------------------------------------
(* C9 *)

RECURSIVE FirstFailure(_, _, _, _)
\* the elements of a list of `length` elements of type T read one after the
\* other from src, up to the first that fails: [failed, index, res], the
\* 0-based index of that element and the result of its read
FirstFailure(T, src, length, index) ==
    IF index >= length THEN [failed |-> FALSE, index |-> index, res |-> Ok(<<>>, src)]
    ELSE LET r == Read(T, src)
         IN IF r.ok THEN FirstFailure(T, r.src, length, index + 1)
            ELSE [failed |-> TRUE, index |-> index, res |-> r]

\* the element scan of the Vec read k
VecScan(k) ==
    LET l == VarInt_read(NewCursor(Rest(reads[k].from)))
    IN IF l.ok
       THEN FirstFailure(Elem(reads[k].T), l.src, LenAsUsize(l.v), 0)
       ELSE [failed |-> FALSE, index |-> 0, res |-> l]

\* the error says that the element `index` failed
ReportsIndex(err, index) ==
    \/ err.arg = <<"element", index>>
    \/ \E j \in 1..Len(err.ctx) : err.ctx[j] = <<"element", index>>

\* a Vec read fails as a whole: nothing is returned, and nothing is read
\* after the first element that fails
VecFailsAtomically(k) ==
    /\ ~reads[k].ok
    /\ reads[k].v = <<>>
    /\ reads[k].to = reads[k].from + VecScan(k).res.src.pos

\* C9 as claimed: decoding a list of N elements fails atomically when an
\* element fails to decode (no partial list, stopping at the first failing
\* element), and the error reports the index of that element.
VecFailureReportsIndex ==
    \A k \in 1..Len(reads) :
        (reads[k].T \in VecTypes /\ VecScan(k).failed) =>
            /\ VecFailsAtomically(k)
            /\ ReportsIndex(reads[k].err, VecScan(k).index)

\* C9: decoding a list of N elements fails atomically when an element fails
\* to decode (no partial list, stopping at the first failing element), and
\* the error is the error of that element's decode as it is: it does not
\* report the element's index.
VecFailureIsElementError ==
    \A k \in 1..Len(reads) :
        (reads[k].T \in VecTypes /\ VecScan(k).failed) =>
            /\ VecFailsAtomically(k)
            /\ reads[k].err = VecScan(k).res.err
            /\ ~ReportsIndex(reads[k].err, VecScan(k).index)

\* a list of three booleans whose second element is the byte 02 was read
VecFailureWitness ==
    /\ Len(reads) = 1 /\ reads[1].T = "Vec<bool>"
    /\ s.data = <<3, 1, 2, 0>>
    /\ ~reads[1].ok
    /\ reads[1].err.kind = "invalid boolean"
    /\ reads[1].to = 3

---------------------------------------------------------------------------
(* C10 *)

\* C10: a failure of the sink during an encode call is returned to the
\* caller as an error of that call: the call never panics, and never
\* reports success when the sink has refused a byte.
SinkFailureReturned ==
    /\ wres # "panic"
    /\ (wres = "err" \/ wres = "panic") => o.room = 0


---------------------------------------------------------------------------
(* C11 *)

RECURSIVE EntriesEncoding(_, _, _)
\* the encodings of the entries of the map m from entry k on, each the key
\* then the value, in the order the map iterates them
EntriesEncoding(T, m, k) ==
    IF k > Len(m) THEN <<>>
    ELSE Encoding(Key(T), m[k][1]) \o Encoding(Elem(T), m[k][2])
            \o EntriesEncoding(T, m, k + 1)

\* the set of key -> value pairs of a map
Pairs(m) == {m[j] : j \in 1..Len(m)}

\* C11: encoding a map writes a VarInt entry count followed by the key/value
\* pairs, and decoding the result yields a map with exactly the same set of
\* key -> value pairs (e.g. {25: "Hello world"} yields exactly that pair),
\* whatever iteration order the encoder used.
MapRoundTrip ==
    /\ \A T \in MapTypes :
          WroteOne(T) =>
              o.buf = Encoding("VarInt", LenAsU32(Len(log[1].v)))
                          \o EntriesEncoding(T, log[1].v, 1)
    /\ origin = "sink" =>
          \A k \in 1..Len(reads) :
              reads[k].T \in MapTypes =>
                  /\ reads[k].ok
                  /\ Pairs(reads[k].v) = Pairs(log[k].v)

\* the same over maps whose strings are within the length String::read accepts
MapRoundTripShort ==
    /\ \A T \in MapTypes :
          WroteOne(T) =>
              o.buf = Encoding("VarInt", LenAsU32(Len(log[1].v)))
                          \o EntriesEncoding(T, log[1].v, 1)
    /\ origin = "sink" =>
          \A k \in 1..Len(reads) :
              (/\ reads[k].T \in MapTypes
               /\ \A j \in 1..Len(log[k].v) :
                      Len(log[k].v[j][2]) <= MaxStringLength) =>
                  /\ reads[k].ok
                  /\ Pairs(reads[k].v) = Pairs(log[k].v)

---------------------------------------------------------------------------
(* C12 *)

\* the value of the underlying type that the enum read k starts with,
\* decoded on its own
Underlying(k) == Read(EnumType(reads[k].T), NewCursor(Rest(reads[k].from)))

\* the variants of an enum declared with the literal u
WithLiteral(Name, u) ==
    {j \in 1..Len(EnumVariants(Name)) : EnumVariants(Name)[j][2] = u}

\* C12: for a generated enum with underlying type U, encode writes the
\* active variant's literal through U's codec and nothing else; decode reads
\* one U value and returns the variant whose declared literal equals it, and
\* fails with an unknown-enum-value error when no declared literal matches.
EnumCodec ==
    /\ \A E \in EnumNames :
          WroteOne(E) =>
              \E j \in 1..Len(EnumVariants(E)) :
                  /\ EnumVariants(E)[j][1] = log[1].v
                  /\ o.buf = Encoding(EnumType(E), EnumVariants(E)[j][2])
    /\ \A k \in 1..Len(reads) :
          (reads[k].T \in EnumNames /\ Underlying(k).ok) =>
              LET u == Underlying(k)
                  E == reads[k].T
              IN /\ reads[k].to = reads[k].from + u.src.pos
                 /\ WithLiteral(E, u.v) # {} =>
                       /\ reads[k].ok
                       /\ \E j \in WithLiteral(E, u.v) :
                             reads[k].v = EnumVariants(E)[j][1]
                 /\ WithLiteral(E, u.v) = {} =>
                       /\ ~reads[k].ok
                       /\ reads[k].err.kind = "invalid enum value"
                       /\ reads[k].err.arg = <<u.v>>

\* the bytes 02 05 were read as two TestWriteEnum values: the first is
\* variant B, the second matches no literal
EnumCodecWitness ==
    /\ s.data = <<2, 5>> /\ origin = "crafted"
    /\ Len(reads) = 2 /\ reads[1].T = "TestWriteEnum"
    /\ reads[1].ok /\ reads[1].v = "B" /\ reads[1].to = 1
    /\ ~reads[2].ok /\ reads[2].err.kind = "invalid enum value"
    /\ reads[2].to = 2

---------------------------------------------------------------------------
(* C13 *)

\* what the last PacketVariant call returned is what the claim says: the
\* declared ID, and Some(record) exactly when e's variant is the packet
NarrowsRight ==
    pv.Q # "" =>
        /\ pv.id = Bits(PacketID(pv.Q), VarIntWidth)
        /\ pv.e.variant = pv.Q => pv.r = <<pv.e.p>>
        /\ pv.e.variant # pv.Q => pv.r = <<>>

\* C13: every packet type of a group exposes its declared discriminant
\* (id() returns the schema ID) and a try-narrow operation: destructure(g)
\* is Some(record) exactly when g's active variant is that packet type and
\* None for every other variant, so destructure(Group::from(p)) = Some(p).
PacketVariantExposed ==
    /\ gen.done =>
          \A P \in PacketNames :
              /\ Implements("PacketVariant", P, gen.impls)
              /\ Implements("From", P, gen.impls)
    /\ NarrowsRight

\* the same for the groups declared (<-) or (<->)
PacketVariantWhereRead ==
    /\ (gen.done /\ mode # "->") =>
          \A P \in PacketNames :
              /\ Implements("PacketVariant", P, gen.impls)
              /\ Implements("From", P, gen.impls)
    /\ NarrowsRight

---------------------------------------------------------------------------
(* C14 *)

\* what the call of thread t returns, and the source or sink it leaves,
\* when it runs alone
Alone(t) ==
    IF calls[t].op = "read"
    THEN Read(calls[t].T, NewCursor(calls[t].src.data))
    ELSE Write(calls[t].T, calls[t].v, NewSink(calls[t].room))

\* C14: codec operations hold no shared mutable state: in any interleaving
\* of encode and decode calls that run concurrently on independent sources
\* and sinks, each call returns the same result and consumes or writes the
\* same bytes as when it runs alone.
InterleavingAsAlone ==
    \A t \in DOMAIN calls :
        calls[t].pc = "done" =>
            /\ calls[t].res = Alone(t)
            /\ calls[t].op = "read" => calls[t].src = Alone(t).src
            /\ calls[t].op = "write" => calls[t].sink = Alone(t).sink

\* two reads of the same type have interleaved their iterations and both
\* have returned
InterleavingWitness ==
    /\ DOMAIN calls = Threads
    /\ calls[1].pc = "done" /\ calls[2].pc = "done"
    /\ calls[1].op = "read" /\ calls[1].T = "VarInt" /\ calls[1].res.ok
    /\ calls[2].op = "read" /\ calls[2].T = "VarInt" /\ ~calls[2].res.ok

---------------------------------------------------------------------------
(* C15 *)

\* bit j (1 = least significant) of the byte b
ByteBit(b, j) == (b \div (2 ^ (j - 1))) % 2

\* bit b (1 = least significant) of the OR of (byte_i & 0x7F) << 7 * i over
\* the first n bytes of `bytes` (i from 0)
PayloadBit(bytes, n, b) ==
    LET i == (b - 1) \div 7
    IN IF i < n THEN ByteBit(bytes[i + 1], ((b - 1) % 7) + 1) ELSE 0

\* C15: VarInt / VarLong decode reads bytes one at a time up to a byte with
\* a clear high bit, consumes exactly those bytes and returns the OR of
\* (byte_i & 0x7F) << 7 * i truncated to the width (u32 / u64): the payload
\* bits above bit 31 (5th VarInt byte) or bit 63 (10th VarLong byte) are
\* dropped without any error.
VarDecodeTruncates ==
    \A k \in 1..Len(reads) :
        reads[k].T \in VarTypes =>
            LET rest == Rest(reads[k].from)
                n == LeadingCont(rest) + 1
            IN (n <= MaxVarBytes(reads[k].T) /\ n <= Len(rest)) =>
                  /\ reads[k].ok
                  /\ reads[k].to = reads[k].from + n
                  /\ Len(reads[k].v) = VarWidth(reads[k].T)
                  /\ \A b \in 1..VarWidth(reads[k].T) :
                        reads[k].v[b] = PayloadBit(rest, n, b)

\* 80 80 80 80 7F was read as a VarInt: the payload bits 32..34 of the fifth
\* byte are dropped and the value is F0000000
VarDecodeTruncatesWitness ==
    /\ Len(reads) = 1 /\ reads[1].T = "VarInt"
    /\ s.data = <<128, 128, 128, 128, 127>>
    /\ reads[1].ok /\ reads[1].to = 5
    /\ reads[1].v = [b \in 1..VarIntWidth |-> IF b >= 29 THEN 1 ELSE 0]

---------------------------------------------------------------------------
(* C16 *)

\* the bit vector x at the width w: zero-extended, or cut at w
Resize(x, w) == [b \in 1..w |-> IF b <= Len(x) THEN x[b] ELSE 0]

\* x is below 2^32
Below32(x) == \A b \in (VarIntWidth + 1)..Len(x) : x[b] = 0

\* VarLong encode of a value below 2^32 writes the bytes VarInt encode writes
SameEncoding ==
    /\ WroteOne("VarInt") =>
          o.buf = Encoding("VarLong", Resize(log[1].v, VarLongWidth))
    /\ (WroteOne("VarLong") /\ Below32(log[1].v)) =>
          o.buf = Encoding("VarInt", Resize(log[1].v, VarIntWidth))

\* the VarLong decode of the bytes that the read k was made from
AsVarLong(k) == VarLong_read(NewCursor(Rest(reads[k].from)))

\* C16: VarLong is a superset of VarInt: for every v in 0..2^32-1 VarLong
\* encode produces the same bytes as VarInt encode, and every byte sequence
\* that VarInt decode accepts is also accepted by VarLong decode, consuming
\* the same number of bytes and yielding the same numeric value.
VarLongSuperset ==
    /\ SameEncoding
    /\ \A k \in 1..Len(reads) :
          (reads[k].T = "VarInt" /\ reads[k].ok) =>
              /\ AsVarLong(k).ok
              /\ reads[k].from + AsVarLong(k).src.pos = reads[k].to
              /\ AsVarLong(k).v = Resize(reads[k].v, VarLongWidth)

\* C16, as the code has it: the encodings agree below 2^32; what VarInt
\* decode accepts VarLong decode accepts, consuming the same bytes; the
\* VarInt value is the VarLong value cut at 32 bits, so the values are equal
\* exactly when the VarLong value is below 2^32.
VarLongSupersetLow32 ==
    /\ SameEncoding
    /\ \A k \in 1..Len(reads) :
          (reads[k].T = "VarInt" /\ reads[k].ok) =>
              /\ AsVarLong(k).ok
              /\ reads[k].from + AsVarLong(k).src.pos = reads[k].to
              /\ reads[k].v = Resize(AsVarLong(k).v, VarIntWidth)
              /\ (AsVarLong(k).v = Resize(reads[k].v, VarLongWidth))
                    <=> Below32(AsVarLong(k).v)

\* FF FF FF FF 7F was read as a VarInt, giving 2^32 - 1, where VarLong
\* decode gives 2^35 - 1
VarLongSupersetWitness ==
    /\ Len(reads) = 1 /\ reads[1].T = "VarInt"
    /\ s.data = <<255, 255, 255, 255, 127>>
    /\ reads[1].ok /\ reads[1].v = Ones(VarIntWidth)
    /\ AsVarLong(1).ok /\ AsVarLong(1).v = LowOnes(35, VarLongWidth)

---------------------------------------------------------------------------
(* C17 *)

\* the sink was written as a stream of packets, and a cursor opened on it
PacketStream ==
    /\ mode = "<->" /\ origin = "sink"
    /\ \A k \in 1..Len(log) : log[k].T \in PacketNames

\* the group read k returned the packet of write k and consumed the bytes
\* that write wrote: the ID by the group, the fields by the packet's read
Framed(k) ==
    LET P == log[k].T
        id == Encoding("VarInt", Bits(PacketID(P), VarIntWidth))
        bytes == Encoding(P, log[k].v)
        body == Read(P, NewCursor(Rest(reads[k].from + Len(id))))
    IN /\ reads[k].ok
       /\ reads[k].T = GroupOf(P)
       /\ reads[k].v.variant = P
       /\ ValEq(P, reads[k].v.p, log[k].v)
       /\ reads[k].to = reads[k].from + Len(bytes)
       /\ body.ok /\ Len(id) + body.src.pos = Len(bytes)

\* C17: after packets p1..pn of a bidirectional group are encoded, each by
\* its own write, into one sink, n successive group decodes of those bytes
\* return the variants wrapping p1..pn in that order, each consuming exactly
\* the bytes its packet's encode wrote (the group decode the ID, the
\* packet's decode only the fields), and the source is exhausted after the
\* n-th decode.
StreamFraming ==
    PacketStream =>
        /\ \A k \in 1..Len(reads) : Framed(k)
        /\ Len(reads) = Len(log) => s.pos = Len(s.data)

\* the same over the streams that hold no string longer than String::read
\* accepts
StreamFramingShort ==
    (PacketStream /\ Len(s.data) <= MaxStringLength) =>
        /\ \A k \in 1..Len(reads) : Framed(k)
        /\ Len(reads) = Len(log) => s.pos = Len(s.data)

====
